---- MODULE Spec2Model ----
(***************************************************************************)
(* Model of the relevance ranker GB_RelevancyDetector                      *)
(* (PyModels/bot/gb_relevancy_detector.py) and of the keyword predicate    *)
(* evaluator KeywordMatcher (ruchatbot/bot/keyword_matcher.py).            *)
(*                                                                         *)
(* Rows and columns of X_data and positions of y_probe keep Python's       *)
(* 0-based indices.  Python lists and strings are TLA+ sequences, so the   *)
(* Python element l[i] is the TLA+ element l[i + 1]; a Python string is a  *)
(* sequence of one-character strings.                                      *)
(***************************************************************************)
EXTENDS Integers, Sequences, FiniteSets

VARIABLES
    \* ---- GB_RelevancyDetector: object fields (init_model_params) ----
    xgb_relevancy_shingle2id,   \* dict shingle -> column offset
    xgb_relevancy_lemmatize,    \* flag selecting the normalisation path
    backend,                    \* TRUE iff predict_by_model is overridden
    \* ---- get_most_relevant: arguments ----
    probe_phrase, phrases, nb_results,
    \* ---- get_most_relevant: locals and position ----
    pc, ipremise, X_data, y_probe, reslist,
    \* ---- observable effects ----
    unknown_calls,              \* per row: how often unknown_shingle(s) ran
    scorer_calls,               \* number of predict_by_model invocations
    scored_batch,               \* the X_data handed to predict_by_model
    result, error,
    \* ---- KeywordMatcher ----
    kw_pc, kw_s, kw_phrase, kw_items, kw_result

ranker_vars == <<xgb_relevancy_shingle2id, xgb_relevancy_lemmatize, backend,
                 probe_phrase, phrases, nb_results, pc, ipremise, X_data,
                 y_probe, reslist, unknown_calls, scorer_calls, scored_batch,
                 result, error>>
kw_vars == <<kw_pc, kw_s, kw_phrase, kw_items, kw_result>>
vars == <<ranker_vars, kw_vars>>

(***************************************************************************)
(* Bounds                                                                  *)
(***************************************************************************)
MaxCand == 3
MaxScore == 1
MaxLen == 5

Min(a, b) == IF a <= b THEN a ELSE b

(***************************************************************************)
(* External collaborators of the ranker: text_utils and the model config.  *)
(***************************************************************************)
Texts == {"t1", "t2", "t3"}
Probes == {"q"}
AllShingles == {"ab", "bc", "cd", "yy", "zz"}

\* set(ngrams(words2str(tokenize(text)), shingle_len))
TokenizeShingles(text) ==
    CASE text = "t1" -> {"ab", "bc", "zz"}
      [] text = "t2" -> {"bc", "cd"}
      [] text = "t3" -> {"yy"}
      [] OTHER       -> {"ab", "cd", "yy"}

\* set(ngrams(words2str(lemmatize(text)), shingle_len))
LemmatizeShingles(text) ==
    CASE text = "t1" -> {"ab", "zz"}
      [] text = "t2" -> {"ab", "bc", "cd"}
      [] text = "t3" -> {}
      [] OTHER       -> {"ab", "bc", "yy"}

\* model_config['shingle2id'] values the detector is loaded with
ShingleIndexes ==
    { [s \in {"ab", "bc", "cd"} |-> CASE s = "ab" -> 0 [] s = "bc" -> 1 [] OTHER -> 2],
      [s \in {"ab", "bc"} |-> IF s = "ab" THEN 1 ELSE 0],
      [s \in {"ab", "bc", "cd"} |-> CASE s = "ab" -> 0 [] s = "bc" -> 0 [] OTHER -> 1] }

NbResults == {0, 1, 2, 1000}
Scores == 0..MaxScore

CandidateRecords == {<<t, "person", "code">> : t \in Texts}

RECURSIVE SeqsUpTo(_, _)
SeqsUpTo(S, n) ==
    IF n = 0 THEN {<<>>}
    ELSE LET shorter == SeqsUpTo(S, n - 1)
         IN  shorter \cup {Append(q, x) : q \in {r \in shorter : Len(r) = n - 1}, x \in S}

(***************************************************************************)
(* xgb_relevancy_vectorize_sample_x                                        *)
(***************************************************************************)
NoCalls == [s \in AllShingles |-> 0]

\* `shingle not in shingle2id' is false
ShingleKnownAlways(shingle, shingle2id) == TRUE
ShingleKnown(shingle, shingle2id) == shingle \in DOMAIN shingle2id

\* one iteration of a `for shingle in ...' loop; acc = [cols, calls, err]
LoopBody(acc, shingle, icol, shingle2id) ==
    IF ~ShingleKnown(shingle, shingle2id)
    THEN [acc EXCEPT !.calls[shingle] = @ + 1]
    ELSE IF shingle \in DOMAIN shingle2id
         THEN [acc EXCEPT !.cols = @ \cup {icol + shingle2id[shingle]}]
         ELSE [acc EXCEPT !.err = "KeyError"]

RECURSIVE SegmentLoop(_, _, _, _)
SegmentLoop(acc, shingles, icol, shingle2id) ==
    IF shingles = {} \/ acc.err # "none" THEN acc
    ELSE LET shingle == CHOOSE x \in shingles : TRUE
         IN  SegmentLoop(LoopBody(acc, shingle, icol, shingle2id),
                         shingles \ {shingle}, icol, shingle2id)

NotMatchedPsAll(ps, qs) == ps
NotMatchedPs(ps, qs) == ps \ qs

\* the row written, the hook calls made and the exception raised, if any
VectorizeSampleX(row, premise_shingles, question_shingles, shingle2id) ==
    LET ps == premise_shingles
        qs == question_shingles
        common_shingles == ps \cap qs
        notmatched_ps == NotMatchedPs(ps, qs)
        notmatched_qs == qs \ ps
        nb_shingles == Cardinality(DOMAIN shingle2id)
        a0 == [cols |-> row, calls |-> NoCalls, err |-> "none"]
        a1 == SegmentLoop(a0, common_shingles, 0, shingle2id)
        a2 == SegmentLoop(a1, notmatched_ps, nb_shingles, shingle2id)
        a3 == SegmentLoop(a2, notmatched_qs, nb_shingles + nb_shingles, shingle2id)
    IN  a3

\* lines 71-82: the flag selects tokenize when set, lemmatize otherwise
PhraseShingles(text, lemmatize) ==
    IF lemmatize THEN TokenizeShingles(text) ELSE LemmatizeShingles(text)

(***************************************************************************)
(* get_most_relevant                                                       *)
(***************************************************************************)
nb_answers == Len(phrases)
Rows == 0..(nb_answers - 1)
NoResult == [kind |-> "none", best_premise |-> "", best_rel |-> 0,
             best_premises |-> <<>>, best_rels |-> <<>>]

Init ==
    /\ xgb_relevancy_shingle2id \in ShingleIndexes
    /\ xgb_relevancy_lemmatize \in BOOLEAN
    /\ backend \in BOOLEAN
    /\ probe_phrase \in Probes
    /\ phrases \in SeqsUpTo(CandidateRecords, MaxCand)
    /\ nb_results \in NbResults
    /\ pc = "call"
    /\ ipremise = 0
    /\ X_data = <<>>
    /\ y_probe = <<>>
    /\ reslist = <<>>
    /\ unknown_calls = <<>>
    /\ scorer_calls = 0
    /\ scored_batch = <<>>
    /\ result = NoResult
    /\ error = "none"
    /\ kw_pc = "off" /\ kw_s = <<>> /\ kw_phrase = <<>> /\ kw_items = <<>>
    /\ kw_result = FALSE

\* lines 63-69: allocate the batch
Allocate ==
    /\ pc = "call"
    /\ X_data' = [r \in Rows |-> {}]
    /\ unknown_calls' = [r \in Rows |-> NoCalls]
    /\ ipremise' = 0
    /\ pc' = "vectorize"
    /\ UNCHANGED <<xgb_relevancy_shingle2id, xgb_relevancy_lemmatize, backend,
                   probe_phrase, phrases, nb_results, y_probe, reslist,
                   scorer_calls, scored_batch, result, error, kw_vars>>

\* lines 70-85: one iteration of the vectorisation loop
VectorizeRow ==
    /\ pc = "vectorize"
    /\ ipremise < nb_answers
    /\ LET premise == phrases[ipremise + 1][1]
           premise_shingles == PhraseShingles(premise, xgb_relevancy_lemmatize)
           question_shingles == PhraseShingles(probe_phrase, xgb_relevancy_lemmatize)
           v == VectorizeSampleX(X_data[ipremise], premise_shingles,
                                 question_shingles, xgb_relevancy_shingle2id)
       IN  /\ X_data' = [X_data EXCEPT ![ipremise] = v.cols]
           /\ unknown_calls' = [unknown_calls EXCEPT ![ipremise] = v.calls]
           /\ IF v.err = "none"
              THEN /\ ipremise' = ipremise + 1
                   /\ UNCHANGED <<pc, error>>
              ELSE /\ pc' = "failed"
                   /\ error' = v.err
                   /\ UNCHANGED ipremise
    /\ UNCHANGED <<xgb_relevancy_shingle2id, xgb_relevancy_lemmatize, backend,
                   probe_phrase, phrases, nb_results, y_probe, reslist,
                   scorer_calls, scored_batch, result, kw_vars>>

LoopFinishedEarly(i, n) == i >= 1 \/ i = n
\* the `for ... in enumerate(phrases)' loop of lines 70-85 is exhausted
LoopFinished(i, n) == i = n

\* line 37: `raise NotImplemented()' calls the constant NotImplemented,
\* which is not callable, so the statement raises TypeError
PredictByModelBase == "TypeError"

\* line 87 on a detector whose predict_by_model is not overridden
ScoreUnimplemented ==
    /\ pc = "vectorize"
    /\ LoopFinished(ipremise, nb_answers)
    /\ ~backend
    /\ scorer_calls' = scorer_calls + 1
    /\ scored_batch' = X_data
    /\ error' = PredictByModelBase
    /\ pc' = "failed"
    /\ UNCHANGED <<xgb_relevancy_shingle2id, xgb_relevancy_lemmatize, backend,
                   probe_phrase, phrases, nb_results, ipremise, X_data, y_probe,
                   reslist, unknown_calls, result, kw_vars>>

\* line 87 with a concrete backend: one score per row, values unconstrained
ScoreByBackend ==
    /\ pc = "vectorize"
    /\ LoopFinished(ipremise, nb_answers)
    /\ backend
    /\ scorer_calls' = scorer_calls + 1
    /\ scored_batch' = X_data
    /\ \E y \in [Rows -> Scores] : y_probe' = y
    /\ pc' = "rank"
    /\ UNCHANGED <<xgb_relevancy_shingle2id, xgb_relevancy_lemmatize, backend,
                   probe_phrase, phrases, nb_results, ipremise, X_data,
                   reslist, unknown_calls, result, error, kw_vars>>

KeyAscending(z) == z[2]
\* line 95: key=lambda z: -z[1]
Key(z) == 0 - z[2]

InsertBeforeEqual(srt, z) ==
    LET k == Cardinality({i \in 1..Len(srt) : Key(srt[i]) < Key(z)})
    IN  SubSeq(srt, 1, k) \o <<z>> \o SubSeq(srt, k + 1, Len(srt))
\* sorted() is stable: an element goes after the elements whose key is not
\* greater than its own
InsertSorted(srt, z) ==
    LET k == Cardinality({i \in 1..Len(srt) : Key(srt[i]) <= Key(z)})
    IN  SubSeq(srt, 1, k) \o <<z>> \o SubSeq(srt, k + 1, Len(srt))

RECURSIVE SortedFrom(_, _, _)
SortedFrom(srt, list, i) ==
    IF i > Len(list) THEN srt
    ELSE SortedFrom(InsertSorted(srt, list[i]), list, i + 1)

\* line 95: sorted(reslist, key=...)
Sorted(list) == SortedFrom(<<>>, list, 1)

\* lines 89-92: pair every premise text with its score
BuildReslist(phr, y) == [i \in 1..Len(phr) |-> <<phr[i][1], y[i - 1]>>]

NoClamp(nb, n_answers) == nb
\* line 104
ClampN(nb, n_answers) == Min(nb, n_answers)

\* lines 97-107: what get_most_relevant returns or raises for a sorted reslist
Select(srt, nb, n_answers) ==
    IF nb = 1
    THEN IF Len(srt) = 0
         THEN [err |-> "IndexError", res |-> NoResult]
         ELSE [err |-> "none",
               res |-> [NoResult EXCEPT !.kind = "pair",
                                        !.best_premise = srt[1][1],
                                        !.best_rel = srt[1][2]]]
    ELSE LET n == ClampN(nb, n_answers)
         IN  IF n > Len(srt)
             THEN [err |-> "IndexError", res |-> NoResult]
             ELSE [err |-> "none",
                   res |-> [NoResult EXCEPT !.kind = "lists",
                                !.best_premises = [i \in 1..n |-> srt[i][1]],
                                !.best_rels = [i \in 1..n |-> srt[i][2]]]]

\* lines 89-107
Rank ==
    /\ pc = "rank"
    /\ LET srt == Sorted(BuildReslist(phrases, y_probe))
           sel == Select(srt, nb_results, nb_answers)
       IN  /\ reslist' = srt
           /\ result' = sel.res
           /\ error' = sel.err
           /\ pc' = IF sel.err = "none" THEN "done" ELSE "failed"
    /\ UNCHANGED <<xgb_relevancy_shingle2id, xgb_relevancy_lemmatize, backend,
                   probe_phrase, phrases, nb_results, ipremise, X_data, y_probe,
                   unknown_calls, scorer_calls, scored_batch, kw_vars>>

Next == Allocate \/ VectorizeRow \/ ScoreUnimplemented \/ ScoreByBackend \/ Rank

Spec == Init /\ [][Next]_vars

(***************************************************************************)
(* keyword_matcher.py                                                      *)
(***************************************************************************)
Alphabet == {"a", "b", " ", ",", "|"}
Whitespace == {" "}

\* words of the input phrases
WordA == <<"a">>
WordB == <<"b">>
WordEmpty == <<>>
WordSpaceA == <<" ", "a">>

\* input_phrase.tags: tuples with the lemma at Python position 2
TagLists ==
    { <<>>,
      << <<WordB, "NOUN", WordA>> >>,
      << <<WordA, "NOUN", WordB>>, <<WordSpaceA, "VERB", WordEmpty>> >> }

\* input_phrase.raw_tokens
RawTokenLists ==
    { <<WordA>>, <<WordEmpty>>, <<WordSpaceA, WordB>> }

InputPhrases == [tags : TagLists, raw_tokens : RawTokenLists]

\* str.strip(): drop leading and trailing whitespace
RECURSIVE LStrip(_)
LStrip(s) ==
    IF Len(s) > 0 /\ Head(s) \in Whitespace THEN LStrip(Tail(s)) ELSE s

RECURSIVE RStrip(_)
RStrip(s) ==
    IF Len(s) > 0 /\ s[Len(s)] \in Whitespace
    THEN RStrip(SubSeq(s, 1, Len(s) - 1)) ELSE s

NoStrip(s) == s
Strip(s) == RStrip(LStrip(s))

\* str.split(sep): the pieces between the separators, never an empty list
RECURSIVE Split(_, _)
Split(s, sep) ==
    IF \A i \in 1..Len(s) : s[i] # sep THEN <<s>>
    ELSE LET i == CHOOSE j \in 1..Len(s) :
                      s[j] = sep /\ \A k \in 1..(j - 1) : s[k] # sep
         IN  <<SubSeq(s, 1, i - 1)>> \o Split(SubSeq(s, i + 1, Len(s)), sep)

LemmaMatchTagsOnly(lemma, input_phrase) ==
    \E i \in 1..Len(input_phrase.tags) : input_phrase.tags[i][3] = lemma
\* KeywordMatcherLemma.match
LemmaMatch(lemma, input_phrase) ==
    \/ \E i \in 1..Len(input_phrase.tags) : input_phrase.tags[i][3] = lemma
    \/ \E i \in 1..Len(input_phrase.raw_tokens) : input_phrase.raw_tokens[i] = lemma

\* KeywordMatcherLemmaList.from_string: the lemmas of the matchers built
LemmaListFromString(s) ==
    LET parts == Split(s, "|")
    IN  [i \in 1..Len(parts) |-> Strip(parts[i])]

LemmaListMatchAll(items, phrase) ==
    \A i \in 1..Len(items) : LemmaMatch(items[i], phrase)
\* KeywordMatcherLemmaList.match
LemmaListMatch(items, phrase) ==
    \E i \in 1..Len(items) : LemmaMatch(items[i], phrase)

\* KeywordMatcher.from_string
KeywordMatcherFromString(s) ==
    LET parts == Split(s, ",")
    IN  [i \in 1..Len(parts) |-> LemmaListFromString(Strip(parts[i]))]

KeywordMatcherMatchAny(items, input_phrase) ==
    \E i \in 1..Len(items) : LemmaListMatch(items[i], input_phrase)
\* KeywordMatcher.match
KeywordMatcherMatch(items, input_phrase) ==
    \A i \in 1..Len(items) : LemmaListMatch(items[i], input_phrase)

InitKeyword ==
    /\ kw_pc = "new"
    /\ kw_s \in SeqsUpTo(Alphabet, MaxLen)
    /\ kw_phrase \in InputPhrases
    /\ kw_items = <<>>
    /\ kw_result = FALSE
    /\ xgb_relevancy_shingle2id = <<>>
    /\ xgb_relevancy_lemmatize = FALSE
    /\ backend = FALSE
    /\ probe_phrase = "" /\ phrases = <<>> /\ nb_results = 1
    /\ pc = "off" /\ ipremise = 0 /\ X_data = <<>> /\ y_probe = <<>>
    /\ reslist = <<>> /\ unknown_calls = <<>> /\ scorer_calls = 0
    /\ scored_batch = <<>> /\ result = NoResult /\ error = "none"

\* matcher = KeywordMatcher.from_string(s)
FromString ==
    /\ kw_pc = "new"
    /\ kw_items' = KeywordMatcherFromString(kw_s)
    /\ kw_pc' = "compiled"
    /\ UNCHANGED <<kw_s, kw_phrase, kw_result, ranker_vars>>

\* matcher.match(input_phrase)
Match ==
    /\ kw_pc = "compiled"
    /\ kw_result' = KeywordMatcherMatch(kw_items, kw_phrase)
    /\ kw_pc' = "matched"
    /\ UNCHANGED <<kw_s, kw_phrase, kw_items, ranker_vars>>

NextKeyword == FromString \/ Match

SpecKeyword == InitKeyword /\ [][NextKeyword]_vars

(***************************************************************************)
(* Properties of the ranker                                                *)
(***************************************************************************)
Returned == pc = "done"
Finished == pc \in {"done", "failed"}

\* the text and the score of the candidate at Python index i
TextOf(i) == phrases[i + 1][1]
ScoreOf(i) == y_probe[i]

\* 1-based place of candidate i when the candidates are ordered by descending
\* score and, among equal scores, by their place in the input list
StablePlace(i) ==
    1 + Cardinality({j \in Rows : \/ ScoreOf(j) > ScoreOf(i)
                                  \/ ScoreOf(j) = ScoreOf(i) /\ j < i})

\* C1: with nb_results # 1 and at least one candidate, the returned texts are
\* in descending order of score, and candidates with equal scores keep the
\* relative order of the input list
C1_StableDescending ==
    (Returned /\ nb_results # 1 /\ nb_answers >= 1) =>
        /\ result.kind = "lists"
        /\ \A k \in 1..(Len(result.best_rels) - 1) :
               result.best_rels[k] >= result.best_rels[k + 1]
        /\ \A i \in Rows :
               StablePlace(i) <= Len(result.best_premises) =>
                   /\ result.best_premises[StablePlace(i)] = TextOf(i)
                   /\ result.best_rels[StablePlace(i)] = ScoreOf(i)

C1_Witness ==
    /\ Returned /\ nb_results = 1000 /\ nb_answers = 3
    /\ TextOf(0) = "t3" /\ TextOf(1) = "t2" /\ TextOf(2) = "t1"
    /\ ScoreOf(0) = 0 /\ ScoreOf(1) = 1 /\ ScoreOf(2) = 1
    /\ result.best_premises = <<"t2", "t1", "t3">>

MaxScoreReturned == CHOOSE m \in {ScoreOf(i) : i \in Rows} :
                        \A i \in Rows : ScoreOf(i) <= m
EarliestBest == CHOOSE i \in Rows :
                    /\ ScoreOf(i) = MaxScoreReturned
                    /\ \A j \in Rows : ScoreOf(j) = MaxScoreReturned => i <= j

\* C2: with nb_results = 1 and at least one candidate, the request returns one
\* (text, score) pair: the maximum score and the text of the earliest
\* candidate that has it
C2_TopOne ==
    (Finished /\ backend /\ nb_results = 1 /\ nb_answers >= 1) =>
        /\ Returned
        /\ result.kind = "pair"
        /\ result.best_rel = MaxScoreReturned
        /\ result.best_premise = TextOf(EarliestBest)

C2_Witness ==
    /\ Returned /\ nb_results = 1 /\ nb_answers = 3
    /\ TextOf(0) = "t1" /\ TextOf(1) = "t2" /\ TextOf(2) = "t3"
    /\ ScoreOf(0) = 0 /\ ScoreOf(1) = 1 /\ ScoreOf(2) = 1
    /\ result.best_premise = "t2" /\ result.best_rel = 1

\* C3: with nb_results > 1 and N >= 1 candidates, the request returns, without
\* raising, two sequences of length min(nb_results, N) each
C3_ClampedLength ==
    (Finished /\ backend /\ nb_results > 1 /\ nb_answers >= 1) =>
        /\ Returned /\ error = "none"
        /\ result.kind = "lists"
        /\ Len(result.best_premises) =
               (IF nb_results > nb_answers THEN nb_answers ELSE nb_results)
        /\ Len(result.best_rels) = Len(result.best_premises)

C3_Witness ==
    /\ Returned /\ nb_results = 1000 /\ nb_answers = 3
    /\ Len(result.best_premises) = 3 /\ Len(result.best_rels) = 3

\* C4: with an empty candidate list the scorer is never called (stated for a
\* detector with a concrete scorer, so that the call seen is a real scoring)
C4_EmptyNeverScored ==
    (backend /\ nb_answers = 0) => scorer_calls = 0

\* the shingle sets of row r, as lines 71-82 derive them
PremiseShinglesOf(r) == PhraseShingles(TextOf(r), xgb_relevancy_lemmatize)
QuestionShingles == PhraseShingles(probe_phrase, xgb_relevancy_lemmatize)
Vocabulary == DOMAIN xgb_relevancy_shingle2id
NbShingles == Cardinality(Vocabulary)

\* the columns the three segments prescribe for row r
ExpectedCols(r) ==
    LET ps == PremiseShinglesOf(r)
        qs == QuestionShingles
    IN  {xgb_relevancy_shingle2id[s] : s \in (ps \cap qs) \cap Vocabulary}
        \cup {NbShingles + xgb_relevancy_shingle2id[s] :
                  s \in (ps \ qs) \cap Vocabulary}
        \cup {2 * NbShingles + xgb_relevancy_shingle2id[s] :
                  s \in (qs \ ps) \cap Vocabulary}

\* C5: over N >= 1 candidates the scorer is invoked exactly once, and only
\* with the batch whose N rows have all been written, row i from candidate i
C5_ScoredOnceOnFullBatch ==
    (pc # "off" /\ nb_answers >= 1) =>
        /\ scorer_calls <= 1
        /\ pc \in {"call", "vectorize"} => scorer_calls = 0
        /\ pc \in {"rank", "done", "failed"} => scorer_calls = 1
        /\ scorer_calls = 1 =>
               /\ ipremise = nb_answers
               /\ DOMAIN scored_batch = Rows
               /\ \A r \in Rows : scored_batch[r] = ExpectedCols(r)

C5_Witness ==
    /\ Returned /\ nb_answers = 3 /\ scorer_calls = 1
    /\ \A r \in Rows : scored_batch[r] # {}

\* the out-of-vocabulary shingles of row r
UnknownOf(r) == (PremiseShinglesOf(r) \cup QuestionShingles) \ Vocabulary

\* C6: vectorising a row whose shingle sets hold out-of-vocabulary shingles
\* raises nothing, calls unknown_shingle for each of them (and for no known
\* shingle), sets exactly the columns segment base + offset of the known
\* shingles in that row, and writes no other row
C6_UnknownShinglesTolerated ==
    (pc \notin {"off", "call"}) =>
        /\ error # "KeyError"
        /\ \A r \in Rows :
               IF r < ipremise
               THEN UnknownOf(r) # {} =>
                        /\ X_data[r] = ExpectedCols(r)
                        /\ \A s \in UnknownOf(r) : unknown_calls[r][s] >= 1
                        /\ \A s \in AllShingles \ UnknownOf(r) :
                               unknown_calls[r][s] = 0
               ELSE X_data[r] = {} /\ unknown_calls[r] = NoCalls

C6_Witness ==
    /\ pc = "vectorize" /\ nb_answers = 2 /\ ipremise = 1
    /\ TextOf(0) = "t1" /\ xgb_relevancy_lemmatize
    /\ unknown_calls[0]["zz"] = 1 /\ unknown_calls[0]["yy"] = 1
    /\ X_data[0] # {} /\ X_data[1] = {}

\* the Shingle Index has unique offsets in [0, nb_shingles)
DenseIndex ==
    /\ \A s \in Vocabulary : xgb_relevancy_shingle2id[s] \in 0..(NbShingles - 1)
    /\ \A s1, s2 \in Vocabulary :
           xgb_relevancy_shingle2id[s1] = xgb_relevancy_shingle2id[s2] => s1 = s2

\* C7: with unique dense offsets, no offset j has more than one of the columns
\* j, nb_shingles + j, 2*nb_shingles + j set in a row, and every column set
\* lies in [0, 3*nb_shingles)
C7_SegmentsDisjoint ==
    (pc \notin {"off", "call"} /\ DenseIndex) =>
        \A r \in Rows :
            /\ X_data[r] \subseteq 0..(3 * NbShingles - 1)
            /\ \A j \in 0..(NbShingles - 1) :
                   Cardinality(X_data[r] \cap
                       {j, NbShingles + j, 2 * NbShingles + j}) <= 1

C7_Witness ==
    /\ pc = "vectorize" /\ ipremise >= 1 /\ DenseIndex /\ NbShingles = 3
    /\ X_data[0] = {0, 4, 8}

\* C10: on a detector without a concrete predict_by_model the request ends at
\* the scoring step with the "not implemented" signal and returns no result
C10_NotImplementedSignal ==
    (Finished /\ ~backend /\ nb_answers >= 1) =>
        /\ pc = "failed" /\ error = "NotImplementedError"
        /\ result.kind = "none"

(***************************************************************************)
(* Properties of the keyword matcher                                       *)
(***************************************************************************)
\* s[i..j] is a piece of s delimited by the characters of seps or the ends
IsPiece(s, i, j, lo, hi, seps) ==
    /\ lo <= i /\ i <= j + 1 /\ j <= hi
    /\ \A k \in i..j : s[k] \notin seps
    /\ (i = lo \/ s[i - 1] \in seps)
    /\ (j = hi \/ s[j + 1] \in seps)

\* the comma-separated groups of s, as pairs of positions
GroupsOf(s) ==
    {g \in (1..(Len(s) + 1)) \X (0..Len(s)) :
        IsPiece(s, g[1], g[2], 1, Len(s), {","})}

\* the pipe-separated lemmas of the group g of s, as pairs of positions
LemmasOf(s, g) ==
    {l \in (g[1]..(g[2] + 1)) \X ((g[1] - 1)..g[2]) :
        IsPiece(s, l[1], l[2], g[1], g[2], {"|"})}

\* s[i..j] without its leading and trailing whitespace
Stripped(s, i, j) ==
    LET inked == {k \in i..j : s[k] \notin Whitespace}
    IN  IF inked = {} THEN <<>>
        ELSE SubSeq(s, CHOOSE k \in inked : \A m \in inked : k <= m,
                       CHOOSE k \in inked : \A m \in inked : m <= k)

\* the lemma is the lemma field of a tag or is a raw token
InPhrase(lemma, phrase) ==
    \/ \E i \in DOMAIN phrase.tags : phrase.tags[i][3] = lemma
    \/ \E i \in DOMAIN phrase.raw_tokens : phrase.raw_tokens[i] = lemma

\* C8: from_string(s).match(phrase) is true iff every comma-separated group
\* of s has a pipe-separated lemma that, stripped of whitespace, is the lemma
\* field of a tag of the phrase or one of its raw tokens
C8_AndOfOrs ==
    kw_pc = "matched" =>
        (kw_result <=>
            \A g \in GroupsOf(kw_s) : \E l \in LemmasOf(kw_s, g) :
                InPhrase(Stripped(kw_s, l[1], l[2]), kw_phrase))

C8_Witness ==
    /\ kw_pc = "matched"
    /\ kw_s = <<"a", "|", "b", ",", "b">>
    /\ kw_phrase.tags = << <<WordA, "NOUN", WordB>>, <<WordSpaceA, "VERB", WordEmpty>> >>
    /\ kw_phrase.raw_tokens = <<WordA>>
    /\ kw_result

\* s has a group that is empty once stripped of whitespace
HasEmptyGroup(s) ==
    \E g \in GroupsOf(s) : Stripped(s, g[1], g[2]) = <<>>

\* no lemma field and no raw token of the phrase is the empty string
NoEmptyToken(phrase) == ~InPhrase(<<>>, phrase)

\* C9 as stated: a configuration string with an empty group (one next to a
\* comma) matches no phrase
C9_EmptyGroupNeverMatches ==
    (/\ kw_pc = "matched"
     /\ HasEmptyGroup(kw_s)
     /\ \E i \in DOMAIN kw_s : kw_s[i] = ",") => ~kw_result

\* C9 as amended: a configuration string with an empty group matches no
\* phrase whose lemma fields and raw tokens are all non-empty
C9_EmptyGroupNeedsEmptyToken ==
    (kw_pc = "matched" /\ HasEmptyGroup(kw_s) /\ NoEmptyToken(kw_phrase)) =>
        ~kw_result

C9_Witness ==
    /\ kw_pc = "matched"
    /\ kw_s = <<"a", ",", " ", ",", "b">>
    /\ kw_phrase.tags = << <<WordB, "NOUN", WordA>> >>
    /\ kw_phrase.raw_tokens = <<WordSpaceA, WordB>>
    /\ ~kw_result

====
